---- MODULE Spec2Model ----
(***************************************************************************)
(* A model of the voxel block storage (src/voxel_buffer.cpp) and of the    *)
(* asynchronous block loading task (src/streams/load_block_data_task.cpp). *)
(*                                                                         *)
(* Two specifications share the module:                                    *)
(*   Spec     - the life of one LoadBlockDataTask under the task runtime   *)
(*   SpecBuf  - sequences of public operations on one VoxelBuffer          *)
(* Each leaves the other part's variables untouched.                       *)
(***************************************************************************)
EXTENDS Integers, Sequences, FiniteSets, Bags

VARIABLES
    \* ---- LoadBlockDataTask and its collaborators ----
    params,             \* the constructor's arguments (immutable)
    stream_dependency,  \* StreamingDependency: valid flag, generator, stream
    volume_registered,  \* VoxelEngine::is_volume_valid(_volume_id)
    task,               \* the task's mutable fields
    pc,                 \* where the runtime is with the task
    pushed_tasks,       \* VoxelEngine::push_async_task calls so far
    outputs,            \* data_output_callback invocations so far
    query,              \* what the stream answered in run()
    at_apply,           \* what apply_result found: volume registered, dependency
                        \* valid, task cancelled (run skipped)
    \* ---- VoxelBuffer ----
    buffer,             \* the block: _size and _channels
    pool,               \* buffers handed out by the memory pool, not recycled
    before,             \* the block before the last operation
    last,               \* the last operation and its arguments
    nops                \* operations done so far

taskvars == <<params, stream_dependency, volume_registered, task, pc,
              pushed_tasks, outputs, query, at_apply>>
bufvars == <<buffer, pool, before, last, nops>>
vars == <<taskvars, bufvars>>

\* A null shared_ptr / unique_ptr / Ref.
Null == "nullptr"

(***************************************************************************)
(* Bounds of the task model.                                               *)
(***************************************************************************)
\* Squared distances to the closest viewer range over 0..MaxDistanceSq.
MaxDistanceSq == 2
\* _priority_dependency.drop_distance_squared ranges over 0..MaxDropDistanceSq.
MaxDropDistanceSq == 1
\* Block coordinates and lod indices range over 0..MaxCoord.
MaxCoord == 1

(***************************************************************************)
(* LoadBlockDataTask (src/streams/load_block_data_task.cpp)                *)
(***************************************************************************)
RESULT_ERROR == "RESULT_ERROR"
RESULT_BLOCK_NOT_FOUND == "RESULT_BLOCK_NOT_FOUND"
RESULT_BLOCK_FOUND == "RESULT_BLOCK_FOUND"
StreamResults == {RESULT_ERROR, RESULT_BLOCK_NOT_FOUND, RESULT_BLOCK_FOUND}

TYPE_LOADED == "TYPE_LOADED"

\* The payload a stream hands back for a found instance block.
InstanceBlockData == "InstanceBlockData"

\* What load_instance_blocks leaves in the query: a payload when found.
InstancesQuery(ires) ==
    [result |-> ires,
     data |-> IF ires = RESULT_BLOCK_FOUND THEN InstanceBlockData ELSE Null]

Coords == 0..MaxCoord
BlockSizes == {16}

\* The constructor: the arguments are stored, the mutable fields start empty.
NewTask ==
    [voxels |-> Null, instances |-> Null, has_run |-> FALSE, too_far |-> FALSE,
     requested_generator_task |-> FALSE, max_lod_hint |-> FALSE]

\* run(), the block allocated and handed to the stream: `loaded` says whether
\* the stream wrote voxels into it.
NewBlock(vres) ==
    IF vres = RESULT_BLOCK_FOUND
    THEN "VoxelBufferInternal, loaded"
    ELSE "VoxelBufferInternal, empty"

\* run(), the parameters of the generator task created on a miss.
BlockTaskParams(t) ==
    [voxels |-> t.voxels, volume_id |-> params.volume_id,
     block_position |-> params.position, lod_index |-> params.lod_index,
     block_size |-> params.block_size, use_gpu |-> params.generator_use_gpu]

\* run(), the dispatch on the voxel query's result: the task's fields and the
\* generator tasks pushed to the runtime.
DropsBlockOnMissNever(t, vres) ==
    IF vres = RESULT_BLOCK_NOT_FOUND /\ params.generate_cache_data
          /\ stream_dependency.generator
    THEN [task |-> [t EXCEPT !.requested_generator_task = TRUE],
          pushed |-> <<BlockTaskParams(t)>>]
    ELSE [task |-> t, pushed |-> <<>>]

dispatch_voxel_result(t, vres) ==
    IF vres = RESULT_ERROR
    THEN [task |-> t, pushed |-> <<>>]
    ELSE IF vres = RESULT_BLOCK_NOT_FOUND
    THEN IF params.generate_cache_data
         THEN IF stream_dependency.generator
              THEN [task |-> [t EXCEPT !.requested_generator_task = TRUE],
                    pushed |-> <<BlockTaskParams(t)>>]
              ELSE [task |-> t, pushed |-> <<>>]
         ELSE [task |-> [t EXCEPT !.voxels = Null], pushed |-> <<>>]
    ELSE [task |-> t, pushed |-> <<>>]

\* run(), the instance query. `failed` is the ERR_FAIL_COND early return,
\* which skips the assignment of _has_run.
load_instances(t, vres, ires) ==
    IF params.request_instances /\ stream_dependency.stream.supports_instance_blocks
    THEN IF t.instances # Null
         THEN [task |-> t, failed |-> TRUE]
         ELSE LET instances_query == InstancesQuery(ires)
              IN IF instances_query.result = RESULT_ERROR
                 THEN [task |-> t, failed |-> FALSE]
                 ELSE IF vres = RESULT_BLOCK_FOUND
                 THEN [task |-> [t EXCEPT !.instances = instances_query.data],
                       failed |-> FALSE]
                 ELSE [task |-> t, failed |-> FALSE]
    ELSE [task |-> t, failed |-> FALSE]

\* run() as a whole.
run(t, vres, ires) ==
    IF t.voxels # Null
    THEN [task |-> t, pushed |-> <<>>]
    ELSE LET d == dispatch_voxel_result([t EXCEPT !.voxels = NewBlock(vres)], vres)
             i == load_instances(d.task, vres, ires)
         IN [task |-> IF i.failed THEN i.task ELSE [i.task EXCEPT !.has_run = TRUE],
             pushed |-> d.pushed]

\* get_priority(): only its effect on _too_far is modelled.
get_priority(t, closest_viewer_distance_sq) ==
    [t EXCEPT !.too_far = (closest_viewer_distance_sq > params.drop_distance_squared)]

is_cancelled(t) == ~stream_dependency.valid \/ t.too_far

\* apply_result(), the condition under which the callback is invoked.
EmitsWhateverTheDependency(t) == ~t.requested_generator_task

EmitsWhenDelegated(t) == stream_dependency.valid

should_emit(t) == stream_dependency.valid /\ ~t.requested_generator_task

\* apply_result(), the bundle handed to data_output_callback.
OutputDroppedInverted(t) ==
    [voxels |-> t.voxels, instances |-> t.instances,
     position |-> params.position, lod_index |-> params.lod_index,
     dropped |-> t.has_run, max_lod_hint |-> t.max_lod_hint,
     initial_load |-> FALSE, type |-> TYPE_LOADED]

BlockDataOutput(t) ==
    [voxels |-> t.voxels, instances |-> t.instances,
     position |-> params.position, lod_index |-> params.lod_index,
     dropped |-> ~t.has_run, max_lod_hint |-> t.max_lod_hint,
     initial_load |-> FALSE, type |-> TYPE_LOADED]

\* apply_result() as a whole: the task afterwards (its instances moved out)
\* and the callback invocations.
ApplyResultIgnoresRegistry(t) ==
    IF should_emit(t)
    THEN [task |-> [t EXCEPT !.instances = Null], emitted |-> <<BlockDataOutput(t)>>]
    ELSE [task |-> t, emitted |-> <<>>]

apply_result(t) ==
    IF volume_registered /\ should_emit(t)
    THEN [task |-> [t EXCEPT !.instances = Null], emitted |-> <<BlockDataOutput(t)>>]
    ELSE [task |-> t, emitted |-> <<>>]

(***************************************************************************)
(* The task under the runtime: get_priority and is_cancelled while queued, *)
(* run unless cancelled, then apply_result on the consumer side.  The      *)
(* volume may unregister and the dependency may be invalidated at any time.*)
(***************************************************************************)
NoQuery == [voxels |-> "none", instances |-> "none"]

InitTask ==
    /\ params \in [position : {<<c, c, c>> : c \in Coords},
                   lod_index : Coords,
                   block_size : BlockSizes,
                   volume_id : {1},
                   request_instances : BOOLEAN,
                   generate_cache_data : BOOLEAN,
                   generator_use_gpu : BOOLEAN,
                   drop_distance_squared : 0..MaxDropDistanceSq]
    /\ stream_dependency \in [valid : {TRUE}, generator : BOOLEAN,
                              stream : [supports_instance_blocks : BOOLEAN]]
    /\ volume_registered = TRUE
    /\ task = NewTask
    /\ pc = "queued"
    /\ pushed_tasks = <<>>
    /\ outputs = <<>>
    /\ query = NoQuery
    /\ at_apply = "none"

GetPriority ==
    /\ UNCHANGED bufvars
    /\ pc = "queued"
    /\ \E d \in 0..MaxDistanceSq : task' = get_priority(task, d)
    /\ UNCHANGED <<params, stream_dependency, volume_registered, pc,
                   pushed_tasks, outputs, query, at_apply>>

\* The runtime asks is_cancelled and skips run() on a cancelled task.
IsCancelled ==
    /\ UNCHANGED bufvars
    /\ pc = "queued"
    /\ pc' = IF is_cancelled(task) THEN "cancelled" ELSE "dispatched"
    /\ UNCHANGED <<params, stream_dependency, volume_registered, task,
                   pushed_tasks, outputs, query, at_apply>>

Run ==
    /\ UNCHANGED bufvars
    /\ pc = "dispatched"
    /\ \E vres \in StreamResults, ires \in StreamResults :
          LET r == run(task, vres, ires)
              asked == params.request_instances
                         /\ stream_dependency.stream.supports_instance_blocks
          IN /\ task' = r.task
             /\ pushed_tasks' = pushed_tasks \o r.pushed
             /\ query' = [voxels |-> vres,
                          instances |-> IF asked THEN ires ELSE "none"]
    /\ pc' = "ran"
    /\ UNCHANGED <<params, stream_dependency, volume_registered, outputs, at_apply>>

ApplyResult ==
    /\ UNCHANGED bufvars
    /\ pc \in {"ran", "cancelled"}
    /\ LET r == apply_result(task)
       IN /\ task' = r.task
          /\ outputs' = outputs \o r.emitted
    /\ at_apply' = [volume |-> volume_registered,
                    dependency |-> stream_dependency.valid,
                    cancelled |-> (pc = "cancelled")]
    /\ pc' = "applied"
    /\ UNCHANGED <<params, stream_dependency, volume_registered, pushed_tasks, query>>

\* The owning volume clears the dependency's valid flag on teardown.
InvalidateDependency ==
    /\ UNCHANGED bufvars
    /\ stream_dependency.valid
    /\ stream_dependency' = [stream_dependency EXCEPT !.valid = FALSE]
    /\ UNCHANGED <<params, volume_registered, task, pc, pushed_tasks, outputs,
                   query, at_apply>>

RemoveVolume ==
    /\ UNCHANGED bufvars
    /\ volume_registered
    /\ volume_registered' = FALSE
    /\ UNCHANGED <<params, stream_dependency, task, pc, pushed_tasks, outputs,
                   query, at_apply>>


(***************************************************************************)
(* VoxelBuffer (src/voxel_buffer.cpp)                                      *)
(*                                                                         *)
(* A raw value (uint64_t) is a tuple of 8 bytes, least significant first,  *)
(* so that 32 and 64 bit values keep their width.  A channel's data is     *)
(* NoData or the sequence of its bytes.                                    *)
(***************************************************************************)
\* Bounds of the buffer model.
\* The program has 8 channels; the model keeps channels 0..MAX_CHANNELS-1
\* (CHANNEL_TYPE, CHANNEL_SDF, then user data).
MAX_CHANNELS == 2
\* Operations applied to the block in one behaviour.
MaxOps == 2

CHANNEL_TYPE == 0
CHANNEL_SDF == 1
Channels == 0..(MAX_CHANNELS - 1)

DEPTH_1_BIT == "DEPTH_1_BIT"
DEPTH_8_BIT == "DEPTH_8_BIT"
DEPTH_16_BIT == "DEPTH_16_BIT"
DEPTH_24_BIT == "DEPTH_24_BIT"
DEPTH_32_BIT == "DEPTH_32_BIT"
DEPTH_64_BIT == "DEPTH_64_BIT"
Depths == {DEPTH_1_BIT, DEPTH_8_BIT, DEPTH_16_BIT, DEPTH_24_BIT, DEPTH_32_BIT,
           DEPTH_64_BIT}

\* A null data pointer.  An allocation of a created block holds at least one
\* byte, so the empty sequence stands for no allocation.
NoData == <<>>

\* A byte of memory that was allocated and never written, or that lies
\* outside the allocation: its content is not determined by the program.
Indeterminate == -1

\* The uint64_t with the value n (n < 2^31).
U64(n) ==
    <<n % 256, (n \div 256) % 256, (n \div 65536) % 256, (n \div 16777216) % 256,
      0, 0, 0, 0>>

\* The uint64_t whose k low bytes are 0xff.
LowBytesSet(k) == [i \in 1..8 |-> IF i <= k THEN 255 ELSE 0]

\* A value read from indeterminate memory.
UndefinedValue == [i \in 1..8 |-> Indeterminate]

\* a >= b on uint64_t.
GreaterOrEqual(a, b) ==
    LET differ == {k \in 1..8 : a[k] # b[k]}
    IN \/ differ = {}
       \/ LET top == CHOOSE k \in differ : \A j \in differ : j <= k
          IN a[top] > b[top]

g_depth_bit_counts(d) ==
    CASE d = DEPTH_1_BIT -> 1
      [] d = DEPTH_8_BIT -> 8
      [] d = DEPTH_16_BIT -> 16
      [] d = DEPTH_24_BIT -> 24
      [] d = DEPTH_32_BIT -> 32
      [] d = DEPTH_64_BIT -> 64

g_depth_max_values(d) ==
    CASE d = DEPTH_1_BIT -> U64(1)
      [] d = DEPTH_8_BIT -> LowBytesSet(1)
      [] d = DEPTH_16_BIT -> LowBytesSet(2)
      [] d = DEPTH_24_BIT -> LowBytesSet(3)
      [] d = DEPTH_32_BIT -> LowBytesSet(4)
      [] d = DEPTH_64_BIT -> LowBytesSet(8)

get_depth_bit_count(d) == g_depth_bit_counts(d)

get_max_value_for_depth(d) == g_depth_max_values(d)

clamp_value_for_depth(value, d) ==
    LET max_val == get_max_value_for_depth(d)
    IN IF GreaterOrEqual(value, max_val) THEN max_val ELSE value

\* sizeof the element type the code casts channel.data to (D8..D64).
BytesPerVoxel(d) == get_depth_bit_count(d) \div 8

\* voxel_buffer.h is not among the sources: geometry as the specification
\* states it.
get_volume(size) == size[1] * size[2] * size[3]

index(size, x, y, z) == y + size[2] * (x + size[1] * z)

validate_pos(size, x, y, z) ==
    /\ x >= 0 /\ y >= 0 /\ z >= 0
    /\ x < size[1] /\ y < size[2] /\ z < size[3]

Positions(size) ==
    {<<x, y, z>> : x \in 0..(size[1] - 1), y \in 0..(size[2] - 1),
                   z \in 0..(size[3] - 1)}

\* Channel's member initialisers, and VoxelBuffer() which sets the default
\* value of the SDF channel.
NewChannel(i, depth) ==
    [data |-> NoData,
     defval |-> clamp_value_for_depth(IF i = CHANNEL_SDF THEN U64(255) ELSE U64(0),
                                      depth),
     depth |-> depth,
     size_in_bytes |-> 0]

\* The memory pool: the bag of the sizes allocated and not recycled.
allocate_channel_data(w, size) == [w EXCEPT !.pool = @ (+) SetToBag({size})]

free_channel_data(w, size) == [w EXCEPT !.pool = @ (-) SetToBag({size})]

get_size_in_bytes_for_volume(size, depth) ==
    LET volume == size[1] * size[2] * size[3]
        bits == volume * get_depth_bit_count(depth)
        size_in_bytes == bits \div 8
    IN IF depth = DEPTH_1_BIT /\ (size_in_bytes * 8) < volume
       THEN size_in_bytes + 1
       ELSE size_in_bytes

\* The former data pointer is overwritten, not freed.
create_channel_noinit(w, i, size) ==
    LET size_in_bytes == get_size_in_bytes_for_volume(size, w.channels[i].depth)
        w1 == allocate_channel_data(w, size_in_bytes)
    IN [w1 EXCEPT !.channels[i].data = [k \in 1..size_in_bytes |-> Indeterminate],
                  !.channels[i].size_in_bytes = size_in_bytes]

delete_channel(w, i) ==
    IF w.channels[i].data = NoData
    THEN w
    ELSE LET w1 == free_channel_data(w, w.channels[i].size_in_bytes)
         IN [w1 EXCEPT !.channels[i].data = NoData,
                       !.channels[i].size_in_bytes = 0]

\* memset(data, byte, n) and the typed loops of fill(): `count` elements
\* holding the low bytes of `value`.  Writes past the allocation are undefined
\* behaviour: `ub` is raised and the in-bounds part is written.
Repeated(value, width, count) ==
    [k \in 1..(width * count) |-> value[((k - 1) % width) + 1]]

WriteBytes(w, i, offset, bytes) ==
    LET data == w.channels[i].data
        n == Len(data)
        written == [k \in 1..n |->
                       IF k > offset /\ k <= offset + Len(bytes)
                       THEN bytes[k - offset]
                       ELSE data[k]]
    IN [w EXCEPT !.channels[i].data = written,
                 !.ub = @ \/ (offset + Len(bytes) > n)]

fill(w, defval_in, channel_index) ==
    LET channel == w.channels[channel_index]
        defval == clamp_value_for_depth(defval_in, channel.depth)
    IN IF channel.data = NoData
       THEN IF channel.defval = defval
            THEN w
            ELSE [w EXCEPT !.channels[channel_index].defval = defval]
       ELSE LET w1 == create_channel_noinit(w, channel_index, w.size)
                volume == get_volume(w1.size)
                size_in_bytes == w1.channels[channel_index].size_in_bytes
                depth == channel.depth
            IN IF depth = DEPTH_1_BIT
               THEN WriteBytes(w1, channel_index, 0,
                               Repeated(IF defval # U64(0) THEN U64(255) ELSE U64(0),
                                        1, size_in_bytes))
               ELSE IF depth = DEPTH_8_BIT
               THEN WriteBytes(w1, channel_index, 0, Repeated(defval, 1, size_in_bytes))
               ELSE WriteBytes(w1, channel_index, 0,
                               Repeated(defval, BytesPerVoxel(depth), volume))

create_channel(w, i, size, defval) == fill(create_channel_noinit(w, i, size), defval, i)


\* Bit operations on one byte.
BitOf(byte, k) == (byte \div (2 ^ k)) % 2

ShiftRight(byte, k) == byte \div (2 ^ k)

WithBit(byte, k, on) ==
    IF byte = Indeterminate
    THEN Indeterminate
    ELSE IF on
    THEN (IF BitOf(byte, k) = 1 THEN byte ELSE byte + 2 ^ k)
    ELSE (IF BitOf(byte, k) = 1 THEN byte - 2 ^ k ELSE byte)

\* The bytes offset .. offset+width-1 of a buffer, as a value; undefined when
\* one of them is outside the allocation or was never written.
ReadBytes(data, offset, width) ==
    IF offset + width > Len(data)
    THEN UndefinedValue
    ELSE IF \E k \in 1..width : data[offset + k] = Indeterminate
    THEN UndefinedValue
    ELSE [k \in 1..8 |-> IF k <= width THEN data[offset + k] ELSE 0]

get_voxel(w, x, y, z, channel_index) ==
    LET channel == w.channels[channel_index]
    IN IF validate_pos(w.size, x, y, z) /\ channel.data # NoData
       THEN LET i == index(w.size, x, y, z)
            IN IF channel.depth = DEPTH_1_BIT
               THEN LET byte == ReadBytes(channel.data, i \div 8, 1)
                    IN IF byte = UndefinedValue
                       THEN UndefinedValue
                       ELSE U64(ShiftRight(byte[1], i % 8))
               ELSE ReadBytes(channel.data, i * BytesPerVoxel(channel.depth),
                              BytesPerVoxel(channel.depth))
       ELSE channel.defval

\* set_voxel(), the store of a clamped value at index i.
store_voxel(w, channel_index, i, value) ==
    LET channel == w.channels[channel_index]
    IN IF channel.depth = DEPTH_1_BIT
       THEN IF (i \div 8) + 1 > Len(channel.data)
            THEN [w EXCEPT !.ub = TRUE]
            ELSE LET prev == channel.data[(i \div 8) + 1]
                 IN WriteBytes(w, channel_index, i \div 8,
                               <<WithBit(prev, i % 8, value # U64(0))>>)
       ELSE WriteBytes(w, channel_index, i * BytesPerVoxel(channel.depth),
                       SubSeq(value, 1, BytesPerVoxel(channel.depth)))

set_voxel(w, value_in, x, y, z, channel_index) ==
    IF ~validate_pos(w.size, x, y, z)
    THEN w
    ELSE LET channel == w.channels[channel_index]
             value == clamp_value_for_depth(value_in, channel.depth)
         IN IF channel.data = NoData
            THEN IF channel.defval # value
                 THEN store_voxel(create_channel(w, channel_index, w.size, channel.defval),
                                  channel_index, index(w.size, x, y, z), value)
                 ELSE w
            ELSE store_voxel(w, channel_index, index(w.size, x, y, z), value)

\* create(): the loop over the channels, from channel i on; _size is assigned
\* after the loop.
RECURSIVE create_from(_, _, _)
create_from(w, i, new_size) ==
    IF i >= MAX_CHANNELS
    THEN w
    ELSE IF w.channels[i].data # NoData
    THEN create_from(create_channel(delete_channel(w, i), i, new_size,
                                    w.channels[i].defval),
                     i + 1, new_size)
    ELSE create_from(w, i + 1, new_size)

create(w, sx, sy, sz) ==
    IF sx <= 0 \/ sy <= 0 \/ sz <= 0
    THEN w
    ELSE IF <<sx, sy, sz>> # w.size
    THEN [create_from(w, 0, <<sx, sy, sz>>) EXCEPT !.size = <<sx, sy, sz>>]
    ELSE w

RECURSIVE clear_from(_, _)
clear_from(w, i) ==
    IF i >= MAX_CHANNELS
    THEN w
    ELSE clear_from(IF w.channels[i].data # NoData THEN delete_channel(w, i) ELSE w, i + 1)

clear(w) == clear_from(w, 0)

clear_channel(w, channel_index, clear_value) ==
    LET w1 == IF w.channels[channel_index].data # NoData
              THEN delete_channel(w, channel_index)
              ELSE w
    IN [w1 EXCEPT !.channels[channel_index].defval =
                      clamp_value_for_depth(clear_value, w.channels[channel_index].depth)]

\* The template is_uniform<T>(data, size): element 0 is read even when size
\* is 0.
is_uniform_T(data, size, width) ==
    LET v0 == ReadBytes(data, 0, width)
    IN \A i \in 1..(size - 1) : ReadBytes(data, i * width, width) = v0

is_uniform(w, channel_index) ==
    LET channel == w.channels[channel_index]
        volume == get_volume(w.size)
    IN IF channel.data = NoData
       THEN TRUE
       ELSE CASE channel.depth = DEPTH_1_BIT -> is_uniform_T(channel.data, volume \div 8, 1)
              [] channel.depth = DEPTH_8_BIT -> is_uniform_T(channel.data, volume, 1)
              [] channel.depth = DEPTH_16_BIT -> is_uniform_T(channel.data, volume, 2)
              [] channel.depth = DEPTH_24_BIT -> is_uniform_T(channel.data, volume * 3, 1)
              [] channel.depth = DEPTH_32_BIT -> is_uniform_T(channel.data, volume, 4)
              [] channel.depth = DEPTH_64_BIT -> is_uniform_T(channel.data, volume, 8)

\* compress_uniform_channels(): clear_channel is given _channels[i].data[0],
\* the first byte of the buffer.
RECURSIVE compress_from(_, _)
compress_from(w, i) ==
    IF i >= MAX_CHANNELS
    THEN w
    ELSE IF w.channels[i].data # NoData /\ is_uniform(w, i)
    THEN compress_from(clear_channel(w, i, ReadBytes(w.channels[i].data, 0, 1)), i + 1)
    ELSE compress_from(w, i + 1)

compress_uniform_channels(w) == compress_from(w, 0)

decompress_channel(w, channel_index) ==
    IF w.channels[channel_index].data = NoData
    THEN create_channel(w, channel_index, w.size, w.channels[channel_index].defval)
    ELSE w

\* set_channel_depth(): channel.depth is not assigned.
set_channel_depth(w, channel_index, new_depth) ==
    LET channel == w.channels[channel_index]
    IN IF channel.depth = new_depth
       THEN w
       ELSE LET w1 == IF channel.data # NoData THEN delete_channel(w, channel_index) ELSE w
            IN [w1 EXCEPT !.channels[channel_index].defval =
                              clamp_value_for_depth(channel.defval, new_depth)]

get_channel_depth(w, channel_index) == w.channels[channel_index].depth


\* memcpy(dst, src, count): a read past the end of src yields bytes of no
\* determined value and, like a write past the end of dst, is outside the
\* allocation.
memcpy(w, i, offset, src, src_offset, count) ==
    LET bytes == [k \in 1..count |->
                     IF src_offset + k <= Len(src) THEN src[src_offset + k]
                     ELSE Indeterminate]
        w1 == WriteBytes(w, i, offset, bytes)
    IN [w1 EXCEPT !.ub = @ \/ (src_offset + count > Len(src))]

\* copy_from(other, channel_index): the memcpy copies get_volume() bytes.
copy_from_channel(w, other, channel_index) ==
    LET channel == w.channels[channel_index]
        other_channel == other.channels[channel_index]
    IN IF other.size # w.size
       THEN w
       ELSE IF other_channel.depth # channel.depth
       THEN w
       ELSE LET w1 == IF other_channel.data # NoData
                      THEN memcpy(IF channel.data = NoData
                                  THEN create_channel_noinit(w, channel_index, w.size)
                                  ELSE w,
                                  channel_index, 0, other_channel.data, 0,
                                  get_volume(w.size))
                      ELSE IF channel.data # NoData
                      THEN delete_channel(w, channel_index)
                      ELSE w
            IN [w1 EXCEPT !.channels[channel_index].defval = other_channel.defval,
                          !.channels[channel_index].depth = other_channel.depth]

RECURSIVE copy_from_loop(_, _, _)
copy_from_loop(w, other, i) ==
    IF i >= MAX_CHANNELS
    THEN w
    ELSE copy_from_loop(copy_from_channel(w, other, i), other, i + 1)

\* copy_from(other): every channel in turn.
copy_from(w, other) == copy_from_loop(w, other, 0)

\* The depth a channel has in a block nobody configured.
DEFAULT_CHANNEL_DEPTH == DEPTH_8_BIT

\* duplicate(): a new block, created with the size of this one, then
\* copy_from(*this).  The new block has its own buffers.
duplicate(w) ==
    LET d == [size |-> <<0, 0, 0>>,
              channels |-> [i \in Channels |-> NewChannel(i, DEFAULT_CHANNEL_DEPTH)],
              pool |-> EmptyBag,
              ub |-> FALSE]
    IN copy_from(create(d, w.size[1], w.size[2], w.size[3]), w)

\* equals(other): "crash" is CRASH_COND on channels of different byte sizes.
RECURSIVE equals_from(_, _, _)
equals_from(w, other, channel_index) ==
    IF channel_index >= MAX_CHANNELS
    THEN "true"
    ELSE LET channel == w.channels[channel_index]
             other_channel == other.channels[channel_index]
         IN IF (channel.data = NoData) # (other_channel.data = NoData)
            THEN "false"
            ELSE IF channel.depth # other_channel.depth
            THEN "false"
            ELSE IF channel.data = NoData
            THEN (IF channel.defval # other_channel.defval
                  THEN "false"
                  ELSE equals_from(w, other, channel_index + 1))
            ELSE IF channel.size_in_bytes # other_channel.size_in_bytes
            THEN "crash"
            ELSE IF \E k \in 1..channel.size_in_bytes :
                       \/ k > Len(channel.data) \/ k > Len(other_channel.data)
                       \/ channel.data[k] = Indeterminate
                       \/ other_channel.data[k] = Indeterminate
            THEN "undefined"
            ELSE IF channel.data # other_channel.data
            THEN "false"
            ELSE equals_from(w, other, channel_index + 1)

equals(w, other) ==
    IF other.size # w.size THEN "false" ELSE equals_from(w, other, 0)


\* Vector3i::clamp_to(min, max): each component is brought into min..max-1.
clamp_to(v, min, max) ==
    [k \in 1..3 |-> IF v[k] < min[k] THEN min[k]
                    ELSE IF v[k] >= max[k] THEN max[k] - 1
                    ELSE v[k]]

\* Vector3i::sort_min_max(a, b), as the pair <<min, max>>.
sort_min_max(a, b) ==
    <<[k \in 1..3 |-> IF a[k] > b[k] THEN b[k] ELSE a[k]],
      [k \in 1..3 |-> IF a[k] > b[k] THEN a[k] ELSE b[k]]>>

Extent(min, max, k) == IF max[k] > min[k] THEN max[k] - min[k] ELSE 0

\* The positions of the loops `for z, for x, for y` over min <= pos < max, in
\* the order the loops visit them.
BoxPositions(min, max) ==
    LET nx == Extent(min, max, 1)
        ny == Extent(min, max, 2)
        nz == Extent(min, max, 3)
    IN [k \in 1..(nx * ny * nz) |->
          <<min[1] + (((k - 1) \div ny) % nx),
            min[2] + ((k - 1) % ny),
            min[3] + ((k - 1) \div (ny * nx))>>]

\* The voxel loop of downscale_to for one channel: the source is read at pos.
\* CRASH_COND ends the process: nothing more happens to dst.
RECURSIVE downscale_voxels(_, _, _, _, _, _, _)
downscale_voxels(src, dst, positions, k, src_min, dst_min, channel_index) ==
    IF k > Len(positions) \/ dst.ub
    THEN dst
    ELSE LET pos == positions[k]
             src_pos == [a \in 1..3 |-> src_min[a] + 2 * (pos[a] - dst_min[a])]
             src_channel == src.channels[channel_index]
             v == IF src_channel.data # NoData
                  THEN get_voxel(src, pos[1], pos[2], pos[3], channel_index)
                  ELSE src_channel.defval
         IN IF ~validate_pos(src.size, src_pos[1], src_pos[2], src_pos[3])
            THEN [dst EXCEPT !.ub = TRUE]
            ELSE downscale_voxels(src,
                                  set_voxel(dst, v, pos[1], pos[2], pos[3], channel_index),
                                  positions, k + 1, src_min, dst_min, channel_index)

RECURSIVE downscale_channels(_, _, _, _, _, _)
downscale_channels(src, dst, src_min, dst_min, dst_max, channel_index) ==
    IF channel_index >= MAX_CHANNELS
    THEN dst
    ELSE LET src_channel == src.channels[channel_index]
             dst_channel == dst.channels[channel_index]
         IN IF /\ src_channel.data = NoData
               /\ dst_channel.data = NoData
               /\ src_channel.defval = dst_channel.defval
            THEN downscale_channels(src, dst, src_min, dst_min, dst_max, channel_index + 1)
            ELSE downscale_channels(
                     src,
                     downscale_voxels(src, dst, BoxPositions(dst_min, dst_max), 1,
                                      src_min, dst_min, channel_index),
                     src_min, dst_min, dst_max, channel_index + 1)

\* src.downscale_to(dst, src_min, src_max, dst_min), as the new dst.
downscale_to(src, dst, src_min_in, src_max_in, dst_min_in) ==
    LET zero == <<0, 0, 0>>
        src_min == clamp_to(src_min_in, zero, src.size)
        src_max == clamp_to(src_max_in, zero, [k \in 1..3 |-> src.size[k] + 1])
        dst_max_in == [k \in 1..3 |-> dst_min_in[k] + ((src_max[k] - src_min[k]) \div 2)]
        dst_min == clamp_to(dst_min_in, zero, dst.size)
        dst_max == clamp_to(dst_max_in, zero, [k \in 1..3 |-> dst.size[k] + 1])
    IN downscale_channels(src, dst, src_min, dst_min, dst_max, 0)


\* The column loop of fill_area: for each (x, z) the run of area_y voxels from
\* index(pos.x, min.y, pos.z) is written (pos.y is 0 throughout).
RECURSIVE fill_columns(_, _, _, _, _, _, _)
fill_columns(w, columns, k, defval, min_y, max_y, channel_index) ==
    IF k > Len(columns) \/ w.ub
    THEN w
    ELSE LET pos == columns[k]
             depth == w.channels[channel_index].depth
             area_y == max_y - min_y
             dst_ri == index(w.size, pos[1], min_y, pos[3])
             set_run[y \in min_y..max_y] ==
                 IF y = min_y
                 THEN w
                 ELSE set_voxel(set_run[y - 1], defval, pos[1], y - 1, pos[3],
                                channel_index)
             w1 == IF dst_ri >= get_volume(w.size)
                   THEN [w EXCEPT !.ub = TRUE]
                   ELSE IF depth \in {DEPTH_1_BIT, DEPTH_24_BIT}
                   THEN set_run[max_y]
                   ELSE WriteBytes(w, channel_index, dst_ri * BytesPerVoxel(depth),
                                   Repeated(defval, BytesPerVoxel(depth), area_y))
         IN fill_columns(w1, columns, k + 1, defval, min_y, max_y, channel_index)

fill_area(w, defval_in, min_in, max_in, channel_index) ==
    LET sorted == sort_min_max(min_in, max_in)
        bound == [k \in 1..3 |-> w.size[k] + 1]
        min == clamp_to(sorted[1], <<0, 0, 0>>, bound)
        max == clamp_to(sorted[2], <<0, 0, 0>>, bound)
        channel == w.channels[channel_index]
        defval == clamp_value_for_depth(defval_in, channel.depth)
    IN IF \E k \in 1..3 : max[k] - min[k] = 0
       THEN w
       ELSE IF channel.data = NoData /\ channel.defval = defval
       THEN w
       ELSE LET w1 == IF channel.data = NoData
                      THEN create_channel(w, channel_index, w.size, channel.defval)
                      ELSE w
            IN fill_columns(w1,
                            BoxPositions(<<min[1], min[2], min[3]>>,
                                         <<max[1], min[2] + 1, max[3]>>),
                            1, defval, min[2], max[2], channel_index)


(***************************************************************************)
(* One block under sequences of public operations.                         *)
(***************************************************************************)
\* Sizes of the blocks and raw values the operations are tried with: the
\* values are 0, 1, one with distinct bytes, and the largest uint64_t.
Sizes == {<<1, 1, 1>>, <<2, 1, 1>>, <<1, 2, 2>>}

Values == {U64(0), U64(1), U64(4660), LowBytesSet(8)}

\* The block and the pool as one value the operations transform; `ub` is
\* raised by an access outside an allocation.
World == [size |-> buffer.size, channels |-> buffer.channels, pool |-> pool,
          ub |-> FALSE]

\* VoxelBuffer(): no size yet, every channel uniform.
NewBuffer(depths) ==
    [size |-> <<0, 0, 0>>,
     channels |-> [i \in Channels |-> NewChannel(i, depths[i])],
     pool |-> EmptyBag,
     ub |-> FALSE]

NoOp == [op |-> "none", ub |-> FALSE]

\* A block as its owner builds it: VoxelBuffer(), each channel in the depth its
\* format gives it (default value clamped to that depth), then create(size).
\* The depth of a channel is fixed from then on: no operation of
\* voxel_buffer.cpp assigns it but copy_from, which requires it unchanged.
InitBuffer ==
    /\ \E depths \in [Channels -> Depths], size \in Sizes :
          LET w == create(NewBuffer(depths), size[1], size[2], size[3])
          IN /\ buffer = [size |-> w.size, channels |-> w.channels]
             /\ pool = w.pool
    /\ before = buffer
    /\ last = NoOp
    /\ nops = 0

\* After undefined behaviour nothing more is said about the block.
CanOperate == nops < MaxOps /\ ~last.ub

\* An operation took the block from World to w.
Becomes(w, op) ==
    /\ buffer' = [size |-> w.size, channels |-> w.channels]
    /\ pool' = w.pool
    /\ before' = buffer
    /\ last' = op
    /\ nops' = nops + 1
    /\ UNCHANGED taskvars

Create ==
    /\ CanOperate
    /\ \E size \in Sizes :
        \E w \in {create(World, size[1], size[2], size[3])} :
           Becomes(w, [op |-> "create", size |-> size, ub |-> w.ub])

SetVoxel ==
    /\ CanOperate
    /\ \E v \in Values, p \in Positions(buffer.size), c \in Channels :
        \E w \in {set_voxel(World, v, p[1], p[2], p[3], c)} :
           Becomes(w, [op |-> "set_voxel", value |-> v, pos |-> p, channel |-> c,
                       ub |-> w.ub])

Fill ==
    /\ CanOperate
    /\ \E v \in Values, c \in Channels :
        \E w \in {fill(World, v, c)} :
           Becomes(w, [op |-> "fill", value |-> v, channel |-> c, ub |-> w.ub])

ClearChannel ==
    /\ CanOperate
    /\ \E v \in Values, c \in Channels :
        \E w \in {clear_channel(World, c, v)} :
           Becomes(w, [op |-> "clear_channel", value |-> v, channel |-> c, ub |-> w.ub])

Clear ==
    /\ CanOperate
    /\ \E w \in {clear(World)} :
       Becomes(w, [op |-> "clear", ub |-> w.ub])

DecompressChannel ==
    /\ CanOperate
    /\ \E c \in Channels :
        \E w \in {decompress_channel(World, c)} :
           Becomes(w, [op |-> "decompress_channel", channel |-> c, ub |-> w.ub])

CompressUniformChannels ==
    /\ CanOperate
    /\ \E w \in {compress_uniform_channels(World)} :
       Becomes(w, [op |-> "compress_uniform_channels", ub |-> w.ub])

SetChannelDepth ==
    /\ CanOperate
    /\ \E c \in Channels, d \in Depths :
        \E w \in {set_channel_depth(World, c, d)} :
           Becomes(w, [op |-> "set_channel_depth", channel |-> c, depth |-> d,
                       ub |-> w.ub])

\* The two halves of a world: the block, and the rest.
BlockOf(w) == [size |-> w.size, channels |-> w.channels]

WorldOf(block) == [size |-> block.size, channels |-> block.channels,
                   pool |-> EmptyBag, ub |-> FALSE]

Duplicate ==
    /\ CanOperate
    /\ \E w \in {duplicate(World)} :
          Becomes(w, [op |-> "duplicate", ub |-> w.ub])

\* The blocks copy_from is given: of the size of this block or of another
\* size, in the depths of this block or in the default depths, uniform or
\* with one voxel written.
OtherValues == {U64(1), U64(4660)}

Others ==
    LET depths == {[c \in Channels |-> buffer.channels[c].depth],
                   [c \in Channels |-> DEFAULT_CHANNEL_DEPTH]}
        fresh == {create(NewBuffer(d), size[1], size[2], size[3]) :
                     d \in depths, size \in {buffer.size, <<2, 1, 1>>}}
        written == {set_voxel(o, v, 0, 0, 0, c) :
                       o \in {f \in fresh : f.size = buffer.size},
                       v \in OtherValues, c \in Channels}
    IN {BlockOf(o) : o \in fresh \cup written}

CopyFrom ==
    /\ CanOperate
    /\ \E other \in Others :
        \E w \in {copy_from(World, WorldOf(other))} :
           Becomes(w, [op |-> "copy_from", other |-> other, ub |-> w.ub])

\* The blocks downscale_to reads: 2x2x2, in the depths of this block, uniform
\* or with one voxel written at the origin or next to it.
Sources ==
    LET fresh == create(NewBuffer([c \in Channels |-> buffer.channels[c].depth]), 2, 2, 2)
    IN {BlockOf(fresh)} \cup
       {BlockOf(set_voxel(fresh, v, x, 0, 0, c)) :
           v \in OtherValues, x \in 0..1, c \in Channels}

DownscaleTo ==
    /\ CanOperate
    /\ \E src \in Sources, dst_min \in Positions(buffer.size) :
        \E w \in {downscale_to(WorldOf(src), World, <<0, 0, 0>>, <<2, 2, 2>>, dst_min)} :
           Becomes(w, [op |-> "downscale_to", src |-> src, src_min |-> <<0, 0, 0>>,
                       src_max |-> <<2, 2, 2>>, dst_min |-> dst_min, ub |-> w.ub])

\* The boxes fill_area is given: from a voxel of the block to the far corner,
\* one voxel wide, empty along x, past the far corner, and with its corners
\* exchanged.
AreaValues == {U64(1), U64(4660)}

Boxes ==
    LET far == buffer.size
    IN UNION {{<<p, far>>,
               <<p, <<p[1] + 1, p[2] + 1, p[3] + 1>>>>,
               <<p, <<p[1], far[2], far[3]>>>>,
               <<p, <<far[1] + 1, far[2] + 1, far[3] + 1>>>>,
               <<far, p>>} : p \in Positions(buffer.size)}

FillArea ==
    /\ CanOperate
    /\ \E v \in AreaValues, box \in Boxes, c \in Channels :
        \E w \in {fill_area(World, v, box[1], box[2], c)} :
           Becomes(w, [op |-> "fill_area", value |-> v, min |-> box[1],
                       max |-> box[2], channel |-> c, ub |-> w.ub])

(***************************************************************************)
(* The specifications.                                                     *)
(***************************************************************************)
\* The block while the task specification runs, and the task while the
\* buffer specification runs: constructed and left alone.
IdleBuffer ==
    /\ buffer = [size |-> <<0, 0, 0>>,
                 channels |-> [i \in Channels |-> NewChannel(i, DEPTH_8_BIT)]]
    /\ pool = EmptyBag
    /\ before = buffer
    /\ last = NoOp
    /\ nops = 0

IdleTask ==
    /\ params = [position |-> <<0, 0, 0>>, lod_index |-> 0, block_size |-> 16,
                 volume_id |-> 1, request_instances |-> FALSE,
                 generate_cache_data |-> FALSE, generator_use_gpu |-> FALSE,
                 drop_distance_squared |-> 0]
    /\ stream_dependency = [valid |-> TRUE, generator |-> FALSE,
                            stream |-> [supports_instance_blocks |-> FALSE]]
    /\ volume_registered = TRUE
    /\ task = NewTask
    /\ pc = "queued"
    /\ pushed_tasks = <<>>
    /\ outputs = <<>>
    /\ query = NoQuery
    /\ at_apply = "none"

Init == InitTask /\ IdleBuffer

Next ==
    \/ GetPriority
    \/ IsCancelled
    \/ Run
    \/ ApplyResult
    \/ InvalidateDependency
    \/ RemoveVolume

Spec == Init /\ [][Next]_vars

InitBuf == IdleTask /\ InitBuffer

NextBuf ==
    \/ Create
    \/ SetVoxel
    \/ Fill
    \/ ClearChannel
    \/ Clear
    \/ DecompressChannel
    \/ CompressUniformChannels
    \/ SetChannelDepth

SpecBuf == InitBuf /\ [][NextBuf]_vars

\* One block under the operations that take or give a second block, and the
\* operations on areas.
NextBuf2 ==
    \/ SetVoxel
    \/ DecompressChannel
    \/ Duplicate
    \/ CopyFrom
    \/ DownscaleTo

SpecBuf2 == InitBuf /\ [][NextBuf2]_vars

\* One block under the operations on areas.
NextBuf3 ==
    \/ SetVoxel
    \/ DecompressChannel
    \/ FillArea

SpecBuf3 == InitBuf /\ [][NextBuf3]_vars


(***************************************************************************)
(* Properties of the load task, checked under Spec.                        *)
(***************************************************************************)
AllOutputsWithoutVoxels == \A k \in 1..Len(outputs) : outputs[k].voxels = Null

\* C1: whatever the task did before (never run, or run with any stream
\* result), when the dependency's valid flag is already cleared at the time
\* apply_result is called, apply_result invokes the callback zero times.
C1_InvalidDependencyEmitsNothing ==
    (pc = "applied" /\ ~at_apply.dependency) => outputs = <<>>

\* A task that ran and found its block, of a registered volume, applied after
\* the dependency was invalidated.
C1_Witness ==
    /\ pc = "applied"
    /\ ~at_apply.dependency
    /\ at_apply.volume
    /\ query.voxels = RESULT_BLOCK_FOUND
    /\ task.has_run

\* C2: after run() got BLOCK_NOT_FOUND with generate_cache_data set and a
\* generator in the dependency, exactly one generator task has been pushed, it
\* owns the task's voxel block, requested_generator_task is set, and
\* apply_result invokes no callback whatever the validity of the volume and
\* of the dependency.
C2_MissWithGeneratorDelegates ==
    (/\ pc \in {"ran", "applied"}
     /\ query.voxels = RESULT_BLOCK_NOT_FOUND
     /\ params.generate_cache_data
     /\ stream_dependency.generator)
    => /\ Len(pushed_tasks) = 1
       /\ task.voxels # Null
       /\ pushed_tasks[1].voxels = task.voxels
       /\ pushed_tasks[1].block_position = params.position
       /\ pushed_tasks[1].lod_index = params.lod_index
       /\ task.requested_generator_task
       /\ outputs = <<>>

\* A delegating task applied while volume and dependency are both valid.
C2_Witness ==
    /\ pc = "applied"
    /\ query.voxels = RESULT_BLOCK_NOT_FOUND
    /\ params.generate_cache_data
    /\ stream_dependency.generator
    /\ at_apply.volume
    /\ at_apply.dependency

\* C3: after run() got BLOCK_FOUND, apply_result on a registered volume with a
\* valid dependency invokes the callback exactly once, with dropped = false,
\* type = LOADED, initial_load = false, the task's position and lod, and a
\* non-null voxel block.
C3_FoundBlockIsEmittedOnce ==
    (/\ pc = "applied"
     /\ query.voxels = RESULT_BLOCK_FOUND
     /\ at_apply.volume
     /\ at_apply.dependency)
    => /\ Len(outputs) = 1
       /\ outputs[1].dropped = FALSE
       /\ outputs[1].type = TYPE_LOADED
       /\ outputs[1].initial_load = FALSE
       /\ outputs[1].position = params.position
       /\ outputs[1].lod_index = params.lod_index
       /\ outputs[1].voxels # Null

C3_Witness ==
    /\ pc = "applied"
    /\ query.voxels = RESULT_BLOCK_FOUND
    /\ at_apply.volume
    /\ at_apply.dependency
    /\ Len(outputs) = 1

\* C4 as stated: after run() got BLOCK_NOT_FOUND with generate_cache_data
\* false or no generator in the dependency, the task's voxels reference is
\* empty and no emitted bundle carries voxels.
C4_MissWithoutGeneratorDropsBlock ==
    (/\ pc \in {"ran", "applied"}
     /\ query.voxels = RESULT_BLOCK_NOT_FOUND
     /\ (~params.generate_cache_data \/ ~stream_dependency.generator))
    => /\ task.voxels = Null
       /\ AllOutputsWithoutVoxels

\* C4 amended: after run() got BLOCK_NOT_FOUND, with generate_cache_data false
\* the voxels reference is empty and no emitted bundle carries voxels; with
\* generate_cache_data true and no generator the allocated block is kept, no
\* generator task is pushed, and every emitted bundle carries that block.
C4_MissDropsBlockOnlyWithoutCaching ==
    (pc \in {"ran", "applied"} /\ query.voxels = RESULT_BLOCK_NOT_FOUND)
    => /\ ~params.generate_cache_data
          => (task.voxels = Null /\ AllOutputsWithoutVoxels)
       /\ (params.generate_cache_data /\ ~stream_dependency.generator)
          => /\ task.voxels = NewBlock(RESULT_BLOCK_NOT_FOUND)
             /\ pushed_tasks = <<>>
             /\ \A k \in 1..Len(outputs) : outputs[k].voxels = task.voxels

\* A miss with caching disabled whose (empty) result was emitted.
C4_Witness ==
    /\ pc = "applied"
    /\ query.voxels = RESULT_BLOCK_NOT_FOUND
    /\ ~params.generate_cache_data
    /\ Len(outputs) = 1

\* C5 as stated: a task the runtime cancelled (is_cancelled returned true and
\* run() was skipped) has no callback invoked by apply_result.
C5_CancelledTaskEmitsNothing ==
    (pc = "applied" /\ at_apply.cancelled) => outputs = <<>>

\* C5 amended: for a cancelled task apply_result invokes no callback when the
\* volume is unregistered or the dependency invalid at that time; otherwise
\* (the task was cancelled for being too far only) it invokes the callback
\* exactly once, with dropped = true and neither voxels nor instances.
C5_CancelledTaskEmitsDroppedOrNothing ==
    (pc = "applied" /\ at_apply.cancelled)
    => IF at_apply.volume /\ at_apply.dependency
       THEN /\ Len(outputs) = 1
            /\ outputs[1].dropped = TRUE
            /\ outputs[1].voxels = Null
            /\ outputs[1].instances = Null
            /\ outputs[1].position = params.position
            /\ outputs[1].lod_index = params.lod_index
            /\ task.too_far
       ELSE outputs = <<>>

\* A task cancelled for being too far, applied with everything still valid.
C5_Witness ==
    /\ pc = "applied"
    /\ at_apply.cancelled
    /\ at_apply.volume
    /\ at_apply.dependency
    /\ task.too_far

\* C6 as stated: when instances were requested from a stream that supports
\* them, a successful instance query leaves its payload in the task's
\* instances after run() for every result of the voxel query; an instance
\* query that ended in ERROR leaves the instances empty, and the voxel result
\* is still emitted.
C6_InstancesFollowTheInstanceQuery ==
    /\ (pc = "ran" /\ query.instances = RESULT_BLOCK_FOUND)
       => task.instances = InstanceBlockData
    /\ (pc = "ran" /\ query.instances = RESULT_ERROR)
       => task.instances = Null
    /\ (/\ pc = "applied"
        /\ query.instances = RESULT_ERROR
        /\ at_apply.volume
        /\ at_apply.dependency
        /\ ~task.requested_generator_task)
       => (Len(outputs) = 1 /\ outputs[1].instances = Null)


(***************************************************************************)
(* Properties of the voxel block, checked under SpecBuf.                   *)
(***************************************************************************)
\* The block before the last operation, as the operations read it.
WorldBefore == [size |-> before.size, channels |-> before.channels,
                pool |-> EmptyBag, ub |-> FALSE]

\* ceil(volume * bits / 8)
ExpectedSizeInBytes(size, depth) ==
    (get_volume(size) * get_depth_bit_count(depth) + 7) \div 8

\* C7 as stated: after every public operation, a channel whose data is present
\* has size_in_bytes = ceil(volume * bits(depth) / 8) for the block's current
\* size and the channel's current depth, and a channel whose data is absent
\* has size_in_bytes = 0.
C7_SizeInBytesMatchesVolume ==
    \A c \in Channels :
        LET channel == buffer.channels[c]
        IN IF channel.data # NoData
           THEN /\ channel.size_in_bytes = ExpectedSizeInBytes(buffer.size, channel.depth)
                /\ Len(channel.data) = channel.size_in_bytes
           ELSE channel.size_in_bytes = 0

StoredVoxel(channel, i) ==
    IF channel.depth = DEPTH_1_BIT
    THEN U64(BitOf(channel.data[(i \div 8) + 1], i % 8))
    ELSE ReadBytes(channel.data, i * BytesPerVoxel(channel.depth),
                   BytesPerVoxel(channel.depth))

\* A materialised channel whose buffer has the size of the block and has been
\* written entirely.
WholeBuffer(size, channel) ==
    /\ channel.data # NoData
    /\ Len(channel.data) = ExpectedSizeInBytes(size, channel.depth)
    /\ \A k \in 1..Len(channel.data) : channel.data[k] # Indeterminate

SameVoxels(w, other) ==
    \A c \in Channels : \A p \in Positions(w.size) :
        get_voxel(w, p[1], p[2], p[3], c) = get_voxel(other, p[1], p[2], p[3], c)

C14_DownscaleSamplesEverySecondVoxel ==
    (last.op = "downscale_to" /\ ~last.ub)
    => LET src == WorldOf(last.src)
           dst_max == [k \in 1..3 |->
                          last.dst_min[k] + (last.src_max[k] - last.src_min[k]) \div 2]
           InRange(p) == \A k \in 1..3 : last.dst_min[k] <= p[k] /\ p[k] < dst_max[k]
       IN \A c \in Channels : \A p \in Positions(buffer.size) :
             get_voxel(World, p[1], p[2], p[3], c)
                = IF InRange(p)
                  THEN get_voxel(src, last.src_min[1] + 2 * (p[1] - last.dst_min[1]),
                                 last.src_min[2] + 2 * (p[2] - last.dst_min[2]),
                                 last.src_min[3] + 2 * (p[3] - last.dst_min[3]), c)
                  ELSE get_voxel(WorldBefore, p[1], p[2], p[3], c)

C16_SetChannelDepthSetsTheDepth ==
    (last.op = "set_channel_depth" /\ ~last.ub)
    => LET c == last.channel
           old == before.channels[c]
           new == buffer.channels[c]
       IN /\ IF last.depth # old.depth
             THEN /\ new.data = NoData
                  /\ get_channel_depth(World, c) = last.depth
                  /\ new.defval = clamp_value_for_depth(old.defval, last.depth)
                  /\ GreaterOrEqual(get_max_value_for_depth(new.depth), new.defval)
             ELSE new = old
          /\ \A c2 \in Channels \ {c} : buffer.channels[c2] = before.channels[c2]
          /\ buffer.size = before.size

\* C17 as stated: after any sequence of operations the buffers allocated from
\* the pool and not recycled are as many as the channels whose data is
\* present, each with the byte size of its channel; after clear(), which the
\* destructor runs, none is left.
C17_PoolHoldsOneBufferPerChannel ==
    /\ BagCardinality(pool)
          = Cardinality({c \in Channels : buffer.channels[c].data # NoData})
    /\ \A c \in Channels :
          buffer.channels[c].data # NoData
          => BagIn(buffer.channels[c].size_in_bytes, pool)
    /\ last.op = "clear" => pool = EmptyBag


====
